---- MODULE Spec2Model ----
(***************************************************************************)
(* Model of src/app.py: the sandboxed execution orchestrator.              *)
(*                                                                         *)
(* Two request handlers, run_code (POST /run) and upload_zip               *)
(* (POST /upload_zip), share one counting semaphore `sema`.  Each handler  *)
(* invocation is a frame; the frames in flight form a bag (handler threads *)
(* are interchangeable).  A handler touches shared state (the semaphore,   *)
(* the docker daemon) at three places: sema.acquire, the docker run it     *)
(* waits for, and the return through its finally clause.  The code between *)
(* those places works on locals only, so each action below runs a handler  *)
(* from one blocking call to the next.  What a step hands to the outside   *)
(* (the docker run it starts, the response it returns) is kept until the   *)
(* outside has taken it, which is a step of its own.  Time is not          *)
(* modelled: a timeout is a step that may be taken.  write_log is taken to *)
(* succeed, and is part of the step that calls it except in LogSpec,       *)
(* where its open and its write are two steps.                             *)
(***************************************************************************)
EXTENDS Integers, Sequences, FiniteSets, Bags

VARIABLES
    sema,       \* the value of the Semaphore `sema`: permits available
    inflight,   \* bag of handler frames, each blocked in a call
    launched,   \* the docker run a step has just started: {} or {its record}
    response,   \* the response a step has just returned: {} or {its record}
    orphans,    \* sandbox containers alive with no handler waiting for them
    truncation  \* a text and what _truncate made of it, applied again and again

vars == <<sema, inflight, launched, response, orphans, truncation>>

----------------------------------------------------------------------------
(* Settings, src/app.py lines 16-31 *)

MAX_PARALLEL_CONTAINERS == 5
MAX_CODE_LENGTH == 5000
DOCKER_IMAGE_PY == "python:3.11-slim"
DOCKER_IMAGE_NODE == "node:18-slim"
EXECUTION_TIMEOUT == 10
DOCKER_SUBPROCESS_TIMEOUT == 12
MEMORY_LIMIT == "128m"
PIDS_LIMIT == 64
MAX_OUTPUT_BYTES == 200000

(* Bounds of the model *)

NumRequests == 6      \* handler frames that may be in flight at once
MaxOrphans == 1       \* containers that may outlive their handler at once
MaxTail == 2          \* characters of any kind that end a text
MaxWriters == 2       \* handlers that may be inside write_log at once

----------------------------------------------------------------------------
(* Values *)

Handlers == {"run_code", "upload_zip"}
RunIds == {"uuid4"}    \* uuid.uuid4().hex[:12], as one opaque value
NoName == <<>>
NoDir == "none"
NotAString == -1      \* body "code" that is not a str
NoCode == -2          \* no inline code (an upload, or a body never read)
NoReturnCode == -2    \* the handler never got as far as a return code
ExitCodes == {0, 1, 137}
OutputLengths == {0, 1}
CodeLengths == {MAX_CODE_LENGTH, MAX_CODE_LENGTH + 1}
Languages == {"python", "javascript", "js", "ruby"}
RmOutcomes == {"removed", "nothing", "error", "timeout"}
RmtreeOutcomes == {"removed", "error"}

----------------------------------------------------------------------------
(* The admission gate: threading.Semaphore(MAX_PARALLEL_CONTAINERS).       *)
(* acquire(timeout=30) takes a permit when the value is positive and       *)
(* returns False once the timeout has passed with the value at zero;       *)
(* release adds one and checks no upper bound (it is no BoundedSemaphore). *)

(* variant: a permit is taken whatever the value *)
CanAcquireUnchecked(s) == TRUE

CanAcquire(s) == s > 0

Acquire(s) == s - 1

AcquireTimedOut(s) == s = 0

(* variant: release gives nothing back *)
ReleaseLost(s) == s

Release(s) == s + 1

(* variant: the busy return inside the try block *)
RefusedThroughFinally(s) == Release(s)

(* acquire returned False: the handler returns before its try block, and  *)
(* so without the release of its finally clause                            *)
Refused(s) == s

(* A handler frame: the locals that live across a blocking call. *)
Frame(h, pc, name, dir) ==
    [handler |-> h, pc |-> pc, container_name |-> name, temp_dir |-> dir]

Waiting(h) == Frame(h, "acquire", NoName, NoDir)

FramesAt(h, pc) == {f \in BagToSet(inflight) : f.handler = h /\ f.pc = pc}

(* What a handler returns, with the facts of its run. *)
Blank(h) ==
    [handler |-> h, http |-> 0, error |-> "none", status |-> "none",
     code_len |-> NoCode, acquired |-> FALSE, releases |-> 0, launches |-> 0,
     container_name |-> NoName, timedOut |-> FALSE,
     return_code |-> NoReturnCode, stdout |-> 0, stderr |-> 0,
     rmCalls |-> 0, rmTarget |-> NoName, rmOutcome |-> "none",
     logs |-> 0, raised |-> FALSE, temp_dir |-> NoDir, rmtree |-> 0,
     rmtreeOutcome |-> "none", spawn |-> "none", steps |-> <<>>]

(* The steps of a handler, in the order of its statements.  A handler      *)
(* blocked in subprocess.run has acquired, validated, built its docker     *)
(* run command and started it; upload_zip has made and filled temp_dir on  *)
(* the way.                                                                *)
(* variant: the command is built before the permit is taken *)
StepsToRunBuildFirst(h) ==
    IF h = "run_code"
    THEN <<"validate", "build", "acquire", "run">>
    ELSE <<"validate", "mkdtemp", "extract", "build", "acquire", "run">>

StepsToRun(h) ==
    IF h = "run_code"
    THEN <<"acquire", "validate", "build", "run">>
    ELSE <<"acquire", "validate", "mkdtemp", "extract", "build", "run">>

(* write_log(status, code, return_code, output, errors): one entry         *)
(* appended to logs/executions.log                                         *)
write_log(resp, status, return_code) ==
    [resp EXCEPT !.status = status,
                 !.return_code = return_code,
                 !.logs = @ + 1,
                 !.steps = Append(@, "write_log")]

----------------------------------------------------------------------------
(* Text.  A str is a sequence of runs, each a count of characters of one   *)
(* kind; a kind is what UTF-8 makes of the character:                      *)
(*   "ascii" one byte, "two" / "three" / "four" that many bytes,           *)
(*   "surrogate" a lone surrogate, which encode(errors="replace") turns    *)
(*   into "?", and "U+FFFD" the replacement character decode puts in.      *)

CharKinds == {"ascii", "two", "three", "four", "surrogate"}

Run(kind, count) == [kind |-> kind, count |-> count]

(* the argument of _truncate that is no str *)
None == <<Run("None", 0)>>

Utf8Width(kind) ==
    CASE kind = "ascii" -> 1
      [] kind = "two" -> 2
      [] kind = "three" -> 3
      [] kind = "four" -> 4
      [] kind = "surrogate" -> 1
      [] kind = "U+FFFD" -> 3

(* what decode makes of the bytes of a whole character *)
Decoded(kind) == IF kind = "surrogate" THEN "ascii" ELSE kind

Ascii(n) == IF n = 0 THEN <<>> ELSE <<Run("ascii", n)>>

(* len(s.encode("utf-8", errors="replace")) *)
RECURSIVE EncodedLength(_)
EncodedLength(s) ==
    IF s = <<>> THEN 0
    ELSE Head(s).count * Utf8Width(Head(s).kind) + EncodedLength(Tail(s))

(* b[:n].decode("utf-8", errors="replace"), b the encoding of s: the       *)
(* characters whose bytes are all among the first n, and one U+FFFD for    *)
(* the bytes of a character the cut goes through                           *)
RECURSIVE DecodedPrefix(_, _)
DecodedPrefix(s, n) ==
    IF s = <<>> \/ n = 0 THEN <<>>
    ELSE LET w == Utf8Width(Head(s).kind)
             whole == n \div w
         IN  IF Head(s).count <= whole
             THEN <<Run(Decoded(Head(s).kind), Head(s).count)>>
                      \o DecodedPrefix(Tail(s), n - Head(s).count * w)
             ELSE (IF whole > 0 THEN <<Run(Decoded(Head(s).kind), whole)>> ELSE <<>>)
                      \o (IF n % w > 0 THEN <<Run("U+FFFD", 1)>> ELSE <<>>)

(* "\n\n[output truncated]" *)
TruncationMarkerLength == 20

TruncationMarker == Ascii(TruncationMarkerLength)

_truncate(s) ==
    IF s = None THEN <<>>
    ELSE IF EncodedLength(s) > MAX_OUTPUT_BYTES
    THEN DecodedPrefix(s, MAX_OUTPUT_BYTES) \o TruncationMarker
    ELSE s

(* The texts tried: ASCII up to around the cap, then a few characters of   *)
(* any kind.                                                               *)
AsciiLengths == {0} \cup ((MAX_OUTPUT_BYTES - 3)..(MAX_OUTPUT_BYTES + 1))

RECURSIVE Tails(_)
Tails(n) ==
    IF n = 0 THEN {<<>>}
    ELSE Tails(n - 1)
         \cup {<<Run(k, 1)>> \o t : k \in CharKinds, t \in {u \in Tails(n - 1) : Len(u) = n - 1}}

Texts == {None} \cup {Ascii(n) \o t : n \in AsciiLengths, t \in Tails(MaxTail)}

(* the length in bytes of a stream the sandbox wrote, after _truncate *)
Stream(n) == EncodedLength(_truncate(Ascii(n)))

(* variant: docker run with the root filesystem left writable *)
DockerRunWritable(name, interactive, volume, image, argv) ==
    [name |-> name, rm |-> TRUE, network |-> "none", memory |-> MEMORY_LIMIT,
     pids_limit |-> PIDS_LIMIT, read_only |-> FALSE, cap_drop |-> "ALL",
     security_opt |-> "no-new-privileges", tmpfs |-> "/tmp:rw,size=16m",
     interactive |-> interactive, volume |-> volume, image |-> image,
     argv |-> argv]

(* The hardening flags both handlers pass to docker run. *)
DockerRun(name, interactive, volume, image, argv) ==
    [name |-> name, rm |-> TRUE, network |-> "none", memory |-> MEMORY_LIMIT,
     pids_limit |-> PIDS_LIMIT, read_only |-> TRUE, cap_drop |-> "ALL",
     security_opt |-> "no-new-privileges", tmpfs |-> "/tmp:rw,size=16m",
     interactive |-> interactive, volume |-> volume, image |-> image,
     argv |-> argv]

(* docker rm -f <name>, run with its own timeout; any exception is swallowed *)
DockerRm(name) ==
    [argv |-> <<"docker", "rm", "-f">>, target |-> name,
     timeout |-> DOCKER_SUBPROCESS_TIMEOUT]

(* The forced removals a handler issues after subprocess.TimeoutExpired *)
(* variant: the removal is tried twice *)
RemovalsRetried(name) == <<DockerRm(name), DockerRm(name)>>

RemovalsOnTimeout(name) == <<DockerRm(name)>>

LastTarget(removals) ==
    IF removals = <<>> THEN NoName ELSE removals[Len(removals)].target

(* subprocess.run raises when docker rm outlives its timeout; a removal    *)
(* that fails or finds nothing only returns a non-zero code nobody reads.  *)
RemovalRaises(rm) == rm = "timeout"

(* variant: the removal outside any try/except *)
RemovalUnguarded(rm) == RemovalRaises(rm)

(* try: subprocess.run([... rm ...]) except Exception: pass *)
RemovalPropagates(rm) == FALSE

(* The finally clause of both handlers: sema.release(), whether the try    *)
(* block returned or an exception is propagating.                          *)
(* variant: release at the end of the try block instead of in finally *)
FinallyUnlessRaised(s, raised) == IF raised THEN s ELSE Release(s)

Finally(s, raised) == Release(s)

(* Nothing handed out by the last step is still on its way. *)
Idle == launched = {} /\ response = {}

(* Leaving the handler: the frame is gone and the response is out. *)
Return(f, resp) ==
    /\ inflight' = inflight (-) SetToBag({f})
    /\ response' = {resp}
    /\ launched' = {}
    /\ UNCHANGED truncation

(* Leaving through the finally clause, holding a permit taken from s. *)
ReturnFinally(f, resp, s) ==
    /\ sema' = Finally(s, resp.raised)
    /\ Return(f, [resp EXCEPT !.acquired = TRUE,
                              !.releases = Finally(s, resp.raised) - s,
                              !.steps = @ \o [i \in 1..(Finally(s, resp.raised) - s)
                                                 |-> "release"]])

(* The container the timed-out handler leaves behind, if any: docker rm    *)
(* that reports success has removed it; otherwise it may still be alive.   *)
AfterRemoval(rm, survives) ==
    /\ rm = "removed" => ~survives
    /\ survives => orphans < MaxOrphans
    /\ orphans' = IF survives THEN orphans + 1 ELSE orphans

----------------------------------------------------------------------------
(* A request reaches a handler, which calls sema.acquire(timeout=30). *)
Arrive(h) ==
    /\ Idle
    /\ BagCardinality(inflight) < NumRequests
    /\ inflight' = inflight (+) SetToBag({Waiting(h)})
    /\ launched' = {}
    /\ response' = {}
    /\ UNCHANGED <<sema, orphans, truncation>>

----------------------------------------------------------------------------
(* run_code *)

Codes == {NotAString} \cup CodeLengths

(* variant: the length check left out *)
RunCodeCheckNoLength(code) ==
    IF code = NotAString THEN "not_string" ELSE "ok"

RunCodeCheck(code) ==
    IF code = NotAString THEN "not_string"
    ELSE IF code > MAX_CODE_LENGTH THEN "too_long"
    ELSE "ok"

RunCodeImage(language) ==
    IF language = "javascript" \/ language = "js"
    THEN DOCKER_IMAGE_NODE ELSE DOCKER_IMAGE_PY

RunCodeCommand(language) ==
    IF language = "javascript" \/ language = "js"
    THEN <<"node", "-">> ELSE <<"python", "-">>

RunCodeName(run_id) == <<"safe_exec_", run_id>>

(* variant: the non-zero test before the empty-streams test *)
RunCodeClassifyExitFirst(return_code, stdout, stderr) ==
    IF return_code # 0
    THEN [status |-> "RUNTIME ERROR", http |-> 400, error |-> "stderr"]
    ELSE IF stdout = 0 /\ stderr = 0
    THEN [status |-> "EXECUTION STOPPED (Killed by Docker/OS)", http |-> 500,
          error |-> "execution_stopped"]
    ELSE [status |-> "SUCCESS", http |-> 200, error |-> "empty"]

RunCodeClassify(return_code, stdout, stderr) ==
    IF return_code # 0 /\ stdout = 0 /\ stderr = 0
    THEN [status |-> "EXECUTION STOPPED (Killed by Docker/OS)", http |-> 500,
          error |-> "execution_stopped"]
    ELSE IF return_code # 0
    THEN [status |-> "RUNTIME ERROR", http |-> 400, error |-> "stderr"]
    ELSE [status |-> "SUCCESS", http |-> 200, error |-> "empty"]

(* acquire returned False: 429, before the try block *)
RunCodeBusy(f) ==
    /\ Idle
    /\ f \in FramesAt("run_code", "acquire")
    /\ AcquireTimedOut(sema)
    /\ sema' = Refused(sema)
    /\ Return(f, [Blank("run_code") EXCEPT !.http = 429, !.error = "busy",
                                            !.releases = Refused(sema) - sema,
                                            !.steps = <<"refused">>])
    /\ UNCHANGED orphans

(* request.get_json() raises on a body that is not JSON (or body.get      *)
(* does, on JSON that is no object): the exception leaves through finally  *)
RunCodeRaise(f) ==
    /\ Idle
    /\ f \in FramesAt("run_code", "acquire")
    /\ CanAcquire(sema)
    /\ ReturnFinally(f, [Blank("run_code") EXCEPT !.http = 400,
                             !.error = "bad_request", !.raised = TRUE,
                             !.steps = <<"acquire">>],
                     Acquire(sema))
    /\ UNCHANGED orphans

(* the two validation returns *)
RunCodeReject(f) ==
    /\ Idle
    /\ f \in FramesAt("run_code", "acquire")
    /\ CanAcquire(sema)
    /\ \E code \in Codes :
        /\ RunCodeCheck(code) # "ok"
        /\ ReturnFinally(f, [Blank("run_code") EXCEPT !.http = 400,
                                 !.error = RunCodeCheck(code),
                                 !.code_len = code,
                                 !.steps = <<"acquire", "validate">>],
                         Acquire(sema))
    /\ UNCHANGED orphans

(* subprocess.run cannot start docker: FileNotFoundError, or another       *)
(* error; logged and answered as SYSTEM ERROR                              *)
RunCodeSpawnFailed(code, e) ==
    write_log([Blank("run_code") EXCEPT !.http = 500,
                  !.error = IF e = "FileNotFoundError"
                            THEN "docker_not_found" ELSE "exception_text",
                  !.spawn = e,
                  !.code_len = code,
                  !.steps = StepsToRun("run_code") \o <<"spawn_failed">>],
              "SYSTEM ERROR", -1)

RunCodeSpawnFail(f) ==
    /\ Idle
    /\ f \in FramesAt("run_code", "acquire")
    /\ CanAcquire(sema)
    /\ \E code \in Codes, e \in {"FileNotFoundError", "Exception"} :
        /\ RunCodeCheck(code) = "ok"
        /\ ReturnFinally(f, RunCodeSpawnFailed(code, e), Acquire(sema))
    /\ UNCHANGED orphans

(* the sandbox starts; the handler blocks in subprocess.run *)
RunCodeLaunch(f) ==
    /\ Idle
    /\ f \in FramesAt("run_code", "acquire")
    /\ CanAcquire(sema)
    /\ \E code \in Codes, language \in Languages, run_id \in RunIds :
        /\ RunCodeCheck(code) = "ok"
        /\ sema' = Acquire(sema)
        /\ inflight' = (inflight (-) SetToBag({f}))
                (+) SetToBag({Frame("run_code", "wait", RunCodeName(run_id), NoDir)})
        /\ launched' = {[handler |-> "run_code", language |-> language,
                         main_py |-> FALSE, index_js |-> FALSE,
                         stdin |-> code, timeout |-> EXECUTION_TIMEOUT,
                         steps |-> StepsToRun("run_code"),
                         docker_command |->
                             DockerRun(RunCodeName(run_id), TRUE, <<>>,
                                       RunCodeImage(language),
                                       RunCodeCommand(language))]}
    /\ response' = {}
    /\ UNCHANGED <<orphans, truncation>>

(* subprocess.TimeoutExpired after EXECUTION_TIMEOUT: docker rm -f, then   *)
(* the TIMEOUT entry and the answer                                        *)
RunCodeTimedOut(f, rm) ==
    LET removals == RemovalsOnTimeout(f.container_name)
        tried == [Blank("run_code") EXCEPT !.timedOut = TRUE,
                     !.launches = 1,
                     !.container_name = f.container_name,
                     !.rmCalls = Len(removals),
                     !.rmTarget = LastTarget(removals),
                     !.rmOutcome = rm,
                     !.steps = StepsToRun("run_code") \o <<"timeout">>
                                   \o [i \in 1..Len(removals) |-> "rm"]]
    IN  IF RemovalPropagates(rm)
        THEN [tried EXCEPT !.http = 500, !.error = "unhandled", !.raised = TRUE]
        ELSE write_log([tried EXCEPT !.http = 200, !.error = "timed_out"],
                       "TIMEOUT", -1)

RunCodeTimeout(f) ==
    /\ Idle
    /\ f \in FramesAt("run_code", "wait")
    /\ \E rm \in RmOutcomes, survives \in BOOLEAN :
        /\ AfterRemoval(rm, survives)
        /\ ReturnFinally(f, RunCodeTimedOut(f, rm), sema)

(* the sandbox exits before the deadline: classify, log, answer *)
RunCodeExited(f, return_code, out, err) ==
    LET stdout == Stream(out)
        stderr == Stream(err)
        class == RunCodeClassify(return_code, stdout, stderr)
    IN  write_log([Blank("run_code") EXCEPT !.http = class.http,
                      !.error = class.error,
                      !.stdout = stdout,
                      !.stderr = stderr,
                      !.launches = 1,
                      !.container_name = f.container_name,
                      !.steps = StepsToRun("run_code") \o <<"exit", "classify">>],
                  class.status, return_code)

RunCodeExit(f) ==
    /\ Idle
    /\ f \in FramesAt("run_code", "wait")
    /\ \E return_code \in ExitCodes, out \in OutputLengths, err \in OutputLengths :
        ReturnFinally(f, RunCodeExited(f, return_code, out, err), sema)
    /\ UNCHANGED orphans

----------------------------------------------------------------------------
(* upload_zip *)

Upload(file, zip, main_py, index_js) ==
    [file |-> file, zip |-> zip, main_py |-> main_py, index_js |-> index_js]

(* The uploads, up to what the handler reads of them: nothing of the       *)
(* archive without a "file" part, no extracted file of a broken archive.   *)
Uploads ==
    {Upload(FALSE, "none", FALSE, FALSE),
     Upload(TRUE, "BadZipFile", FALSE, FALSE),
     Upload(TRUE, "Exception", FALSE, FALSE)}
    \cup {Upload(TRUE, "ok", m, j) : m \in BOOLEAN, j \in BOOLEAN}

TempDir == "upload_"

UploadZipCheck(up) ==
    IF ~up.file THEN "no_file"
    ELSE IF up.zip = "BadZipFile" THEN "invalid_zip"
    ELSE IF up.main_py THEN "ok"
    ELSE IF up.index_js THEN "ok"
    ELSE "no_entry"

(* variant: index.js tested first *)
UploadZipImageNodeFirst(up) ==
    IF up.index_js THEN DOCKER_IMAGE_NODE ELSE DOCKER_IMAGE_PY

UploadZipImage(up) ==
    IF up.main_py THEN DOCKER_IMAGE_PY ELSE DOCKER_IMAGE_NODE

UploadZipCommand(up) ==
    IF up.main_py THEN <<"python", "/app/main.py">>
    ELSE <<"node", "/app/index.js">>

UploadZipName(run_id) == <<"safe_zip_", run_id>>

(* temp_dir is still None when the upload has no "file" part *)
UploadZipTempDir(up) == IF up.file THEN TempDir ELSE NoDir

(* how far upload_zip got when its check of the upload ends it *)
UploadZipSteps(check) ==
    CASE check = "no_file" -> <<"acquire", "validate">>
      [] check = "invalid_zip" -> <<"acquire", "validate", "mkdtemp", "extract">>
      [] check = "no_entry" ->
             <<"acquire", "validate", "mkdtemp", "extract", "validate">>

(* The finally clause removes temp_dir when it was made; shutil.rmtree     *)
(* that fails is swallowed.                                                *)
(* variant: the removal at the end of the try block instead of in finally *)
UploadZipCleanupUnlessRaised(resp, rmtree) ==
    IF resp.temp_dir # NoDir /\ ~resp.raised
    THEN [resp EXCEPT !.rmtree = 1, !.rmtreeOutcome = rmtree,
                      !.steps = Append(@, "rmtree")]
    ELSE resp

UploadZipCleanup(resp, rmtree) ==
    IF resp.temp_dir # NoDir
    THEN [resp EXCEPT !.rmtree = 1, !.rmtreeOutcome = rmtree,
                      !.steps = Append(@, "rmtree")]
    ELSE resp

UploadZipBusy(f) ==
    /\ Idle
    /\ f \in FramesAt("upload_zip", "acquire")
    /\ AcquireTimedOut(sema)
    /\ sema' = Refused(sema)
    /\ Return(f, [Blank("upload_zip") EXCEPT !.http = 429, !.error = "busy",
                                              !.releases = Refused(sema) - sema,
                                              !.steps = <<"refused">>])
    /\ UNCHANGED orphans

(* zip_file.save or extractall raises something other than BadZipFile *)
UploadZipRaise(f) ==
    /\ Idle
    /\ f \in FramesAt("upload_zip", "acquire")
    /\ CanAcquire(sema)
    /\ \E up \in Uploads, rmtree \in RmtreeOutcomes :
        /\ up.file
        /\ up.zip = "Exception"
        /\ ReturnFinally(f, UploadZipCleanup(
                                [Blank("upload_zip") EXCEPT !.http = 500,
                                    !.error = "unhandled", !.raised = TRUE,
                                    !.temp_dir = UploadZipTempDir(up),
                                    !.steps = UploadZipSteps("invalid_zip")],
                                rmtree),
                         Acquire(sema))
    /\ UNCHANGED orphans

(* the three validation returns *)
UploadZipReject(f) ==
    /\ Idle
    /\ f \in FramesAt("upload_zip", "acquire")
    /\ CanAcquire(sema)
    /\ \E up \in Uploads :
        /\ up.zip # "Exception"
        /\ UploadZipCheck(up) # "ok"
        /\ \E rmtree \in IF up.file THEN RmtreeOutcomes ELSE {"none"} :
            ReturnFinally(f, UploadZipCleanup(
                                 [Blank("upload_zip") EXCEPT !.http = 400,
                                     !.error = UploadZipCheck(up),
                                     !.temp_dir = UploadZipTempDir(up),
                                     !.steps = UploadZipSteps(UploadZipCheck(up))],
                                 rmtree),
                          Acquire(sema))
    /\ UNCHANGED orphans

(* subprocess.run cannot start docker: only FileNotFoundError is caught *)
UploadZipSpawnFail(f) ==
    /\ Idle
    /\ f \in FramesAt("upload_zip", "acquire")
    /\ CanAcquire(sema)
    /\ \E up \in Uploads : up.zip = "ok" /\ UploadZipCheck(up) = "ok"
    /\ \E e \in {"FileNotFoundError", "Exception"}, rmtree \in RmtreeOutcomes :
        ReturnFinally(f, UploadZipCleanup(
                             [Blank("upload_zip") EXCEPT !.http = 500,
                                 !.error = IF e = "FileNotFoundError"
                                           THEN "docker_not_found"
                                           ELSE "unhandled",
                                 !.raised = (e # "FileNotFoundError"),
                                 !.spawn = e,
                                 !.temp_dir = TempDir,
                                 !.steps = StepsToRun("upload_zip")
                                               \o <<"spawn_failed">>],
                             rmtree),
                      Acquire(sema))
    /\ UNCHANGED orphans

UploadZipLaunch(f) ==
    /\ Idle
    /\ f \in FramesAt("upload_zip", "acquire")
    /\ CanAcquire(sema)
    /\ \E up \in Uploads, run_id \in RunIds :
        /\ up.zip = "ok"
        /\ UploadZipCheck(up) = "ok"
        /\ sema' = Acquire(sema)
        /\ inflight' = (inflight (-) SetToBag({f}))
                (+) SetToBag({Frame("upload_zip", "wait", UploadZipName(run_id),
                                    UploadZipTempDir(up))})
        /\ launched' = {[handler |-> "upload_zip", language |-> "none",
                         main_py |-> up.main_py, index_js |-> up.index_js,
                         stdin |-> NoCode, timeout |-> EXECUTION_TIMEOUT,
                         steps |-> StepsToRun("upload_zip"),
                         docker_command |->
                             DockerRun(UploadZipName(run_id), FALSE,
                                       <<UploadZipTempDir(up), "/app", "ro">>,
                                       UploadZipImage(up),
                                       UploadZipCommand(up))]}
    /\ response' = {}
    /\ UNCHANGED <<orphans, truncation>>

(* subprocess.TimeoutExpired: docker rm -f and the answer, with no entry   *)
(* in the log                                                              *)
UploadZipTimedOut(f, rm) ==
    LET removals == RemovalsOnTimeout(f.container_name)
        tried == [Blank("upload_zip") EXCEPT !.timedOut = TRUE,
                     !.launches = 1,
                     !.container_name = f.container_name,
                     !.rmCalls = Len(removals),
                     !.rmTarget = LastTarget(removals),
                     !.rmOutcome = rm,
                     !.temp_dir = f.temp_dir,
                     !.steps = StepsToRun("upload_zip") \o <<"timeout">>
                                   \o [i \in 1..Len(removals) |-> "rm"]]
    IN  IF RemovalPropagates(rm)
        THEN [tried EXCEPT !.http = 500, !.error = "unhandled", !.raised = TRUE]
        ELSE [tried EXCEPT !.http = 200, !.error = "timed_out"]

UploadZipTimeout(f) ==
    /\ Idle
    /\ f \in FramesAt("upload_zip", "wait")
    /\ \E rm \in RmOutcomes, survives \in BOOLEAN, rmtree \in RmtreeOutcomes :
        /\ AfterRemoval(rm, survives)
        /\ ReturnFinally(f, UploadZipCleanup(UploadZipTimedOut(f, rm), rmtree), sema)

(* subprocess.run(text=True) decodes the streams in strict mode: bytes    *)
(* the sandboxed program wrote that are no valid text raise                *)
(* UnicodeDecodeError out of subprocess.run, which upload_zip does not     *)
(* catch                                                                   *)
Decodings == {"text", "UnicodeDecodeError"}

(* the sandbox exits before the deadline: the streams and the return code  *)
(* go back as they are, with no classification and no log entry            *)
UploadZipExited(f, return_code, out, err, decoding) ==
    LET exited == [Blank("upload_zip") EXCEPT !.launches = 1,
                      !.container_name = f.container_name,
                      !.temp_dir = f.temp_dir,
                      !.steps = StepsToRun("upload_zip") \o <<"exit">>]
    IN  IF decoding = "UnicodeDecodeError"
        THEN [exited EXCEPT !.http = 500, !.error = "unhandled", !.raised = TRUE]
        ELSE [exited EXCEPT !.http = 200,
                            !.error = "stderr",
                            !.return_code = return_code,
                            !.stdout = Stream(out),
                            !.stderr = Stream(err)]

UploadZipExit(f) ==
    /\ Idle
    /\ f \in FramesAt("upload_zip", "wait")
    /\ \E exited \in {UploadZipExited(f, return_code, out, err, decoding) :
                          return_code \in ExitCodes, out \in OutputLengths,
                          err \in OutputLengths, decoding \in Decodings},
          rmtree \in RmtreeOutcomes :
        ReturnFinally(f, UploadZipCleanup(exited, rmtree), sema)
    /\ UNCHANGED orphans

----------------------------------------------------------------------------
(* A container left behind by a failed removal ends on its own. *)
OrphanExit ==
    /\ Idle
    /\ orphans > 0
    /\ orphans' = orphans - 1
    /\ launched' = {}
    /\ response' = {}
    /\ UNCHANGED <<sema, inflight, truncation>>

----------------------------------------------------------------------------
Init ==
    /\ sema = MAX_PARALLEL_CONTAINERS
    /\ inflight = EmptyBag
    /\ launched = {}
    /\ response = {}
    /\ orphans = 0
    /\ truncation = <<>>

(* One step of one handler in flight. *)
Handle ==
    \/ \E f \in BagToSet(inflight) : RunCodeBusy(f)
    \/ \E f \in BagToSet(inflight) : RunCodeRaise(f)
    \/ \E f \in BagToSet(inflight) : RunCodeReject(f)
    \/ \E f \in BagToSet(inflight) : RunCodeSpawnFail(f)
    \/ \E f \in BagToSet(inflight) : RunCodeLaunch(f)
    \/ \E f \in BagToSet(inflight) : RunCodeTimeout(f)
    \/ \E f \in BagToSet(inflight) : RunCodeExit(f)
    \/ \E f \in BagToSet(inflight) : UploadZipBusy(f)
    \/ \E f \in BagToSet(inflight) : UploadZipRaise(f)
    \/ \E f \in BagToSet(inflight) : UploadZipReject(f)
    \/ \E f \in BagToSet(inflight) : UploadZipSpawnFail(f)
    \/ \E f \in BagToSet(inflight) : UploadZipLaunch(f)
    \/ \E f \in BagToSet(inflight) : UploadZipTimeout(f)
    \/ \E f \in BagToSet(inflight) : UploadZipExit(f)

(* The outside takes what the last step handed out: docker has the run    *)
(* command, or the client has the response.                                *)
Taken ==
    /\ ~Idle
    /\ launched' = {}
    /\ response' = {}
    /\ UNCHANGED <<sema, inflight, orphans, truncation>>

Next ==
    \/ \E h \in Handlers : Arrive(h)
    \/ Handle
    \/ OrphanExit
    \/ Taken

Spec == Init /\ [][Next]_vars

(* A burst: NumRequests requests arrive together and no more follow.       *)
(* Every blocking call of a handler ends within its timeout (30 s in       *)
(* acquire, EXECUTION_TIMEOUT in subprocess.run), so a handler in flight   *)
(* always takes its next step, and what it hands out is always taken.      *)
FairInit ==
    /\ sema = MAX_PARALLEL_CONTAINERS
    /\ \E n \in 0..NumRequests :
        inflight = [f \in {g \in {Waiting("run_code"), Waiting("upload_zip")} :
                              (g.handler = "run_code" /\ n > 0)
                              \/ (g.handler = "upload_zip" /\ n < NumRequests)}
                      |-> IF f.handler = "run_code" THEN n ELSE NumRequests - n]
    /\ launched = {}
    /\ response = {}
    /\ orphans = 0
    /\ truncation = <<>>

FairNext == Handle \/ OrphanExit \/ Taken

FairSpec == FairInit /\ [][FairNext]_vars /\ WF_vars(Handle) /\ WF_vars(Taken)

(* write_log in two steps.  A handler that has its outcome opens           *)
(* logs/executions.log for appending and is then inside write_log, with    *)
(* the response it is about to give; f.write, the close at the end of the  *)
(* with block, jsonify and the finally clause are its last step.  Nothing  *)
(* in write_log or around its calls makes a handler wait for another.      *)
LogFrame(f, resp) ==
    [handler |-> f.handler, pc |-> "write_log",
     container_name |-> f.container_name, temp_dir |-> f.temp_dir,
     pending |-> resp]

InWriteLog ==
    BagCardinality([f \in {g \in BagToSet(inflight) : g.pc = "write_log"}
                       |-> inflight[f]])

WriteLogOpen(f, resp) ==
    /\ InWriteLog < MaxWriters
    /\ inflight' = (inflight (-) SetToBag({f})) (+) SetToBag({LogFrame(f, resp)})
    /\ UNCHANGED <<launched, response, truncation>>

RunCodeSpawnFailOpen(f) ==
    /\ Idle
    /\ f \in FramesAt("run_code", "acquire")
    /\ CanAcquire(sema)
    /\ \E code \in Codes, e \in {"FileNotFoundError", "Exception"} :
        /\ RunCodeCheck(code) = "ok"
        /\ WriteLogOpen(f, RunCodeSpawnFailed(code, e))
    /\ sema' = Acquire(sema)
    /\ UNCHANGED orphans

RunCodeTimeoutOpen(f) ==
    /\ Idle
    /\ f \in FramesAt("run_code", "wait")
    /\ \E rm \in RmOutcomes, survives \in BOOLEAN :
        /\ ~RemovalPropagates(rm)
        /\ AfterRemoval(rm, survives)
        /\ WriteLogOpen(f, RunCodeTimedOut(f, rm))
    /\ UNCHANGED sema

RunCodeExitOpen(f) ==
    /\ Idle
    /\ f \in FramesAt("run_code", "wait")
    /\ \E return_code \in ExitCodes, out \in OutputLengths, err \in OutputLengths :
        WriteLogOpen(f, RunCodeExited(f, return_code, out, err))
    /\ UNCHANGED <<sema, orphans>>

WriteLogClose(f) ==
    /\ Idle
    /\ f \in FramesAt("run_code", "write_log")
    /\ ReturnFinally(f, f.pending, sema)
    /\ UNCHANGED orphans

LogNext ==
    \/ \E h \in Handlers : Arrive(h)
    \/ \E f \in BagToSet(inflight) : RunCodeBusy(f)
    \/ \E f \in BagToSet(inflight) : RunCodeRaise(f)
    \/ \E f \in BagToSet(inflight) : RunCodeReject(f)
    \/ \E f \in BagToSet(inflight) : RunCodeLaunch(f)
    \/ \E f \in BagToSet(inflight) : RunCodeSpawnFailOpen(f)
    \/ \E f \in BagToSet(inflight) : RunCodeTimeoutOpen(f)
    \/ \E f \in BagToSet(inflight) : RunCodeExitOpen(f)
    \/ \E f \in BagToSet(inflight) : WriteLogClose(f)
    \/ \E f \in BagToSet(inflight) : UploadZipBusy(f)
    \/ \E f \in BagToSet(inflight) : UploadZipRaise(f)
    \/ \E f \in BagToSet(inflight) : UploadZipReject(f)
    \/ \E f \in BagToSet(inflight) : UploadZipSpawnFail(f)
    \/ \E f \in BagToSet(inflight) : UploadZipLaunch(f)
    \/ \E f \in BagToSet(inflight) : UploadZipTimeout(f)
    \/ \E f \in BagToSet(inflight) : UploadZipExit(f)
    \/ OrphanExit
    \/ Taken

LogSpec == Init /\ [][LogNext]_vars

(* _truncate on its own: a text, then _truncate applied to it, then        *)
(* applied to the result.                                                  *)
TruncateInit ==
    /\ sema = MAX_PARALLEL_CONTAINERS
    /\ inflight = EmptyBag
    /\ launched = {}
    /\ response = {}
    /\ orphans = 0
    /\ \E s \in Texts : truncation = <<s>>

Truncate ==
    /\ Len(truncation) \in 1..2
    /\ truncation' = Append(truncation, _truncate(truncation[Len(truncation)]))
    /\ UNCHANGED <<sema, inflight, launched, response, orphans>>

TruncateNext == Truncate

TruncateSpec == TruncateInit /\ [][TruncateNext]_vars

----------------------------------------------------------------------------
(* Properties *)

(* The handlers blocked in subprocess.run: each holds one permit. *)
Holding == {f \in BagToSet(inflight) : f.pc = "wait"}

HeldPermits == BagCardinality([f \in Holding |-> inflight[f]])

Blocked == {f \in BagToSet(inflight) : f.pc = "acquire"}

(* Sandbox containers alive: one per waiting handler, and the orphans. *)
AliveSandboxes == HeldPermits + orphans

(* The outcome names of the result taxonomy, from what the handler wrote   *)
(* to the log (run_code) or answered.                                      *)
Outcome(r) ==
    IF r.error = "busy" THEN "BUSY"
    ELSE IF r.error \in {"not_string", "too_long", "no_file", "invalid_zip", "no_entry"}
    THEN "VALIDATION_ERROR"
    ELSE IF r.error = "timed_out" THEN "TIMEOUT"
    ELSE IF r.error \in {"docker_not_found", "exception_text"} THEN "SYSTEM_ERROR"
    ELSE IF r.status = "EXECUTION STOPPED (Killed by Docker/OS)" THEN "KILLED"
    ELSE IF r.status = "RUNTIME ERROR" THEN "RUNTIME_ERROR"
    ELSE IF r.status = "SUCCESS" THEN "SUCCESS"
    ELSE "NONE"

(* C1: whatever the interleaving of run_code and upload_zip requests, at   *)
(* most MAX_PARALLEL_CONTAINERS permits are held at the same time, and the *)
(* semaphore never goes below zero.                                        *)
C1_HeldPermitsAtMostN ==
    /\ HeldPermits <= MAX_PARALLEL_CONTAINERS
    /\ sema >= 0

(* the gate is saturated by handlers of both kinds while another request   *)
(* is blocked in acquire                                                   *)
C1_Witness ==
    /\ HeldPermits = MAX_PARALLEL_CONTAINERS
    /\ sema = 0
    /\ Blocked # {}
    /\ \E f, g \in Holding : f.handler = "run_code" /\ g.handler = "upload_zip"

(* C2: a request whose acquire succeeded releases exactly once on every    *)
(* exit path (validation return, timeout, system error, normal end, an     *)
(* exception propagating), a request refused as busy never releases, and   *)
(* every permit taken is eventually back.                                  *)
C2_ReleasedExactlyOnce ==
    /\ [](\A r \in response :
            /\ r.acquired <=> r.error # "busy"
            /\ r.releases = IF r.acquired THEN 1 ELSE 0)
    /\ (sema < MAX_PARALLEL_CONTAINERS) ~> (sema = MAX_PARALLEL_CONTAINERS)

(* a handler left with an exception propagating and its permit released *)
C2_Witness ==
    \E r \in response : r.raised /\ r.acquired /\ r.releases = 1

(* C3, as claimed: an inline request with code longer than                 *)
(* MAX_CODE_LENGTH is rejected as a validation error having never taken a  *)
(* permit.                                                                 *)
C3_OversizedNeverReachesGate ==
    \A r \in response :
        (r.handler = "run_code" /\ r.code_len > MAX_CODE_LENGTH)
            => (Outcome(r) = "VALIDATION_ERROR" /\ ~r.acquired /\ r.releases = 0)

(* C4: the status of an inline run that launched a sandbox follows the     *)
(* table: timed out -> TIMEOUT; else non-zero exit with both streams empty *)
(* -> KILLED; else non-zero exit -> RUNTIME_ERROR; else SUCCESS.           *)
C4_InlineClassification ==
    \A r \in response :
        (r.handler = "run_code" /\ r.launches = 1) =>
            /\ r.timedOut => Outcome(r) = "TIMEOUT"
            /\ (~r.timedOut /\ r.return_code # 0 /\ r.stdout = 0 /\ r.stderr = 0)
                   => Outcome(r) = "KILLED"
            /\ (~r.timedOut /\ r.return_code # 0 /\ (r.stdout # 0 \/ r.stderr # 0))
                   => Outcome(r) = "RUNTIME_ERROR"
            /\ (~r.timedOut /\ r.return_code = 0) => Outcome(r) = "SUCCESS"
            /\ r.status \in {"TIMEOUT", "EXECUTION STOPPED (Killed by Docker/OS)",
                             "RUNTIME ERROR", "SUCCESS"}

(* exit code 137 with nothing on either stream, reported as killed *)
C4_Witness ==
    \E r \in response :
        /\ r.handler = "run_code" /\ ~r.timedOut
        /\ r.return_code = 137 /\ r.stdout = 0 /\ r.stderr = 0
        /\ Outcome(r) = "KILLED"

(* C5: a handler started its sandbox under the name its frame keeps; when  *)
(* the wait hits the deadline it issues exactly one docker rm, for that    *)
(* name, and answers TIMEOUT; when the sandbox exits in time it issues     *)
(* none.  Both handlers.                                                   *)
C5_OneRemovalOnTimeout ==
    /\ \A l \in launched :
           \E f \in Holding : /\ f.handler = l.handler
                              /\ f.container_name = l.docker_command.name
                              /\ f.container_name # NoName
    /\ \A r \in response :
           r.launches = 1 =>
               IF r.timedOut
               THEN /\ r.rmCalls = 1
                    /\ r.rmTarget = r.container_name
                    /\ r.rmTarget[1] = (IF r.handler = "run_code"
                                        THEN "safe_exec_" ELSE "safe_zip_")
                    /\ Outcome(r) = "TIMEOUT"
               ELSE r.rmCalls = 0 /\ r.rmTarget = NoName

(* an upload whose sandbox hit the deadline and was removed once *)
C5_Witness ==
    \E r \in response :
        /\ r.handler = "upload_zip" /\ r.timedOut
        /\ r.rmCalls = 1 /\ r.rmTarget = r.container_name

(* C6: when the forced removal fails, finds nothing or times out, the      *)
(* handler still answers TIMEOUT (no system error, no exception), has      *)
(* tried the removal once only, and has released its permit.               *)
C6_RemovalFailureSwallowed ==
    \A r \in response :
        (r.timedOut /\ r.rmOutcome # "removed") =>
            /\ Outcome(r) = "TIMEOUT"
            /\ r.http = 200
            /\ ~r.raised
            /\ r.rmCalls = 1
            /\ r.releases = 1

(* docker rm itself timed out, the container is still alive, and the       *)
(* handler answered TIMEOUT                                                *)
C6_Witness ==
    \E r \in response :
        /\ r.timedOut /\ r.rmOutcome = "timeout" /\ RemovalRaises(r.rmOutcome)
        /\ r.error = "timed_out"
        /\ orphans > 0

(* C7, as claimed: at most MAX_PARALLEL_CONTAINERS sandbox containers are  *)
(* alive at any time, also after removals that failed.                     *)
C7_AliveSandboxesAtMostN == AliveSandboxes <= MAX_PARALLEL_CONTAINERS

(* C8: no request stays blocked: a burst of requests ends with every       *)
(* handler returned and all MAX_PARALLEL_CONTAINERS permits available; and *)
(* whenever no handler is in flight all permits are available.             *)
C8_NoDeadlockNoLeak ==
    /\ [](inflight = EmptyBag => sema = MAX_PARALLEL_CONTAINERS)
    /\ <>[](inflight = EmptyBag /\ sema = MAX_PARALLEL_CONTAINERS)

(* the burst is over: the last handler, refused as busy or failed, has     *)
(* returned and the gate is full again                                     *)
C8_Witness ==
    /\ inflight = EmptyBag
    /\ sema = MAX_PARALLEL_CONTAINERS
    /\ \E r \in response : r.error = "busy" \/ r.raised

(* C9: a request that ends as busy or as a validation error has started no *)
(* sandbox and issued no removal; no docker run is ever started for code   *)
(* that is not a string or is too long, nor for an archive without         *)
(* main.py and index.js.                                                   *)
C9_RejectedNeverReachSupervisor ==
    /\ \A r \in response :
           Outcome(r) \in {"BUSY", "VALIDATION_ERROR"} =>
               /\ r.launches = 0
               /\ r.container_name = NoName
               /\ r.rmCalls = 0
               /\ launched = {}
    /\ \A l \in launched :
           IF l.handler = "run_code"
           THEN l.stdin \in 0..MAX_CODE_LENGTH
           ELSE l.main_py \/ l.index_js

(* an upload without an entry point was refused *)
C9_Witness ==
    \E r \in response :
        /\ r.handler = "upload_zip" /\ r.error = "no_entry"
        /\ r.launches = 0 /\ r.temp_dir # NoDir

(* C10: an archive with main.py runs python /app/main.py on the Python     *)
(* image, whether or not index.js is there too; one with index.js only     *)
(* runs node /app/index.js on the Node image; each launch is one docker    *)
(* run with one entry point.                                               *)
C10_EntryPointPythonFirst ==
    /\ \A l \in launched :
           l.handler = "upload_zip" =>
               /\ l.main_py =>
                      /\ l.docker_command.image = DOCKER_IMAGE_PY
                      /\ l.docker_command.argv = <<"python", "/app/main.py">>
               /\ (~l.main_py /\ l.index_js) =>
                      /\ l.docker_command.image = DOCKER_IMAGE_NODE
                      /\ l.docker_command.argv = <<"node", "/app/index.js">>
    /\ Cardinality(launched) <= 1
    /\ \A r \in response : r.launches <= 1

(* both entry points present: Python was chosen *)
C10_Witness ==
    \E l \in launched :
        /\ l.handler = "upload_zip" /\ l.main_py /\ l.index_js
        /\ l.docker_command.image = DOCKER_IMAGE_PY

(* C11, as claimed: a sandboxed program that exits non-zero, crashes or    *)
(* runs into the deadline is answered with its classification (TIMEOUT,    *)
(* KILLED or RUNTIME_ERROR, by the table of the inline handler) and no     *)
(* exception leaves the handler, for archive runs as for inline runs; a    *)
(* non-zero exit is not answered as a success.                             *)
C11_SandboxFailureClassified ==
    \A r \in response :
        r.launches = 1 =>
            /\ ~r.raised
            /\ r.timedOut => Outcome(r) = "TIMEOUT"
            /\ (~r.timedOut /\ r.return_code # 0) =>
                   /\ Outcome(r) = (IF r.stdout = 0 /\ r.stderr = 0
                                    THEN "KILLED" ELSE "RUNTIME_ERROR")
                   /\ r.http # 200

(* C12, as claimed: when subprocess.run cannot start docker run (docker    *)
(* missing, or any other failure to spawn) the handler, inline or archive, *)
(* answers SYSTEM_ERROR, not a status of the exit-code table, and no       *)
(* exception leaves the handler.                                           *)
C12_LaunchFailureIsSystemError ==
    \A r \in response :
        r.spawn # "none" =>
            /\ Outcome(r) = "SYSTEM_ERROR"
            /\ ~r.raised
            /\ r.launches = 0
            /\ r.return_code \notin ExitCodes

(* C13, as claimed: _truncate gives back a text of at most                 *)
(* MAX_OUTPUT_BYTES encoded bytes as it is (so a second application        *)
(* changes nothing), and the encoded length of its result is at most       *)
(* MAX_OUTPUT_BYTES plus the length of the marker for every text, also     *)
(* when the cut goes through a character of several bytes.                 *)
C13_TruncateBounded ==
    (Len(truncation) >= 2 /\ truncation[1] # None) =>
        /\ EncodedLength(truncation[1]) <= MAX_OUTPUT_BYTES =>
               /\ truncation[2] = truncation[1]
               /\ Len(truncation) = 3 => truncation[3] = truncation[2]
        /\ EncodedLength(truncation[2]) <= MAX_OUTPUT_BYTES + TruncationMarkerLength

(* The places of a step in a trace of steps, and one step wholly before    *)
(* another.                                                                *)
Places(steps, step) == {i \in 1..Len(steps) : steps[i] = step}

Before(steps, a, b) ==
    \A i \in Places(steps, a), j \in Places(steps, b) : i < j

(* C14: in every request that acquired, the permit is taken first, before  *)
(* the docker run command is built and before the process is started; the  *)
(* end of the process (exit or deadline) comes before classification,      *)
(* classification before the log entry, the log entry before the release;  *)
(* and the release, done once, is the last step.                           *)
C14_StepsOrdered ==
    /\ \A l \in launched :
           /\ Places(l.steps, "acquire") = {1}
           /\ Before(l.steps, "acquire", "build")
           /\ Before(l.steps, "build", "run")
           /\ Places(l.steps, "run") = {Len(l.steps)}
    /\ \A r \in response :
           r.acquired =>
               /\ Places(r.steps, "acquire") = {1}
               /\ Places(r.steps, "release") = {Len(r.steps)}
               /\ Before(r.steps, "acquire", "build")
               /\ Before(r.steps, "build", "run")
               /\ \A end \in {"exit", "timeout"} :
                      /\ Before(r.steps, "run", end)
                      /\ Before(r.steps, end, "classify")
                      /\ Before(r.steps, end, "write_log")
                      /\ Before(r.steps, end, "release")
               /\ Before(r.steps, "classify", "write_log")
               /\ Before(r.steps, "write_log", "release")

(* an inline run that went through every step *)
C14_Witness ==
    \E r \in response :
        r.steps = <<"acquire", "validate", "build", "run", "exit", "classify",
                    "write_log", "release">>

(* C15, as claimed: at most one handler is inside write_log (between the   *)
(* open of logs/executions.log and the end of its write) at any time.      *)
C15_LogWritesSerialized == InWriteLog <= 1

(* C16, as claimed: every execution that reached the supervisor (its       *)
(* sandbox was started, or starting it failed) has one entry in the log,   *)
(* with its final status, written before the permit is released, in        *)
(* upload_zip as in run_code.                                              *)
C16_LoggedOnceBeforeRelease ==
    \A r \in response :
        (r.launches = 1 \/ r.spawn # "none") =>
            /\ r.logs = 1
            /\ Cardinality(Places(r.steps, "write_log")) = 1
            /\ Before(r.steps, "write_log", "release")
            /\ r.status \in {"SUCCESS", "RUNTIME ERROR", "TIMEOUT", "SYSTEM ERROR",
                             "EXECUTION STOPPED (Killed by Docker/OS)"}

(* C17: every return of upload_zip that made temp_dir (invalid archive,    *)
(* no entry point, deadline, docker missing, exit, an exception) has tried *)
(* shutil.rmtree once, as its last step before the release, and has        *)
(* released its permit whether or not rmtree failed; a return that made no *)
(* directory removes none.                                                 *)
C17_TempDirRemoved ==
    \A r \in response :
        (r.handler = "upload_zip" /\ r.acquired) =>
            /\ r.temp_dir # NoDir <=> Places(r.steps, "mkdtemp") # {}
            /\ r.temp_dir # NoDir =>
                   /\ r.rmtree = 1
                   /\ r.rmtreeOutcome \in RmtreeOutcomes
                   /\ Places(r.steps, "rmtree") = {Len(r.steps) - 1}
                   /\ Places(r.steps, "release") = {Len(r.steps)}
                   /\ r.releases = 1
            /\ r.temp_dir = NoDir => r.rmtree = 0 /\ Places(r.steps, "rmtree") = {}

(* an exception is leaving upload_zip, rmtree has failed, and the permit   *)
(* is back                                                                 *)
C17_Witness ==
    \E r \in response :
        /\ r.handler = "upload_zip" /\ r.raised /\ r.temp_dir # NoDir
        /\ r.rmtree = 1 /\ r.rmtreeOutcome = "error"
        /\ r.releases = 1

(* C18: every docker run started, for inline code in any language and for  *)
(* an archive, has networking off, the memory and process limits, a        *)
(* read-only root filesystem, all capabilities dropped, no-new-privileges  *)
(* and a tmpfs of limited size; an archive run mounts its temp_dir and     *)
(* nothing else, read-only, and an inline run mounts nothing.              *)
C18_EveryLaunchHardened ==
    \A l \in launched :
        LET c == l.docker_command IN
        /\ c.network = "none"
        /\ c.memory = "128m"
        /\ c.pids_limit = 64
        /\ c.read_only
        /\ c.cap_drop = "ALL"
        /\ c.security_opt = "no-new-privileges"
        /\ c.tmpfs = "/tmp:rw,size=16m"
        /\ IF l.handler = "upload_zip"
           THEN c.volume = <<TempDir, "/app", "ro">> /\ ~c.interactive
           ELSE c.volume = <<>> /\ c.interactive

(* an archive run and its read-only mount *)
C18_Witness ==
    \E l \in launched :
        /\ l.handler = "upload_zip"
        /\ l.docker_command.volume = <<TempDir, "/app", "ro">>
        /\ l.docker_command.read_only

(* C19: a request refused as busy releases nothing and no request releases *)
(* more than it acquired, so the permits available and the permits held    *)
(* add up to MAX_PARALLEL_CONTAINERS in every state and the semaphore      *)
(* never counts more than that.                                            *)
C19_PermitsConserved ==
    /\ sema + HeldPermits = MAX_PARALLEL_CONTAINERS
    /\ sema <= MAX_PARALLEL_CONTAINERS
    /\ \A r \in response :
           /\ r.error = "busy" => r.releases = 0 /\ ~r.acquired
           /\ r.releases <= (IF r.acquired THEN 1 ELSE 0)

(* a request has been refused as busy while all permits are held *)
C19_Witness ==
    /\ \E r \in response : r.error = "busy" /\ r.releases = 0
    /\ sema = 0
    /\ HeldPermits = MAX_PARALLEL_CONTAINERS

====
